---- MODULE Spec2Model ----
(***************************************************************************)
(* Model of the BFHL REST service: src/index.js (the stricter variant)     *)
(* and src/unnamed/part_000 (the lenient variant).                         *)
(*                                                                         *)
(* JavaScript numbers are IEEE-754 doubles.  TLC's integers are 32 bits    *)
(* wide, so a double is modelled exactly, as sign * mantissa * 2^exponent  *)
(* with a 53-bit mantissa held in 15-bit limbs, and every arithmetic       *)
(* operation rounds to nearest, ties to even, as the hardware does.        *)
(* Infinity and NaN are separate kinds.                                    *)
(***************************************************************************)
EXTENDS Integers, Sequences, FiniteSets, TLC

(***************************************************************************)
(* Natural numbers of any size: little-endian sequences of 15-bit limbs,   *)
(* without a high-order zero limb.                                         *)
(***************************************************************************)

\* 2^k
Pow2(k) == 2^k

LimbBits == 15

LimbBase == 32768

\* drop the high-order zero limbs (at most two arise in any one operation
\* below, but any number is handled)
LStrip(a) ==
  IF \A i \in 1..Len(a) : a[i] = 0 THEN <<>>
  ELSE LET top == CHOOSE i \in 1..Len(a) :
                     a[i] # 0 /\ \A j \in (i + 1)..Len(a) : a[j] = 0
       IN  SubSeq(a, 1, top)

\* limb i of a, zero beyond its length
Limb(a, i) == IF i >= 1 /\ i <= Len(a) THEN a[i] ELSE 0

RECURSIVE LOfNat(_)
\* the limbs of a natural number TLC can hold
LOfNat(n) == IF n = 0 THEN <<>> ELSE <<n % LimbBase>> \o LOfNat(n \div LimbBase)

RECURSIVE LToNat(_)
\* the natural number of at most two limbs
LToNat(a) == IF a = <<>> THEN 0 ELSE a[1] + LimbBase * LToNat(Tail(a))

\* a + b, limb by limb: a carry enters limb i when a limb below it overflows
\* and every limb between the two is full
LAdd(a, b) ==
  IF Len(a) + Len(b) = 0 THEN <<>>
  ELSE
  LET n == IF Len(a) > Len(b) THEN Len(a) ELSE Len(b)
      sum(i) == Limb(a, i) + Limb(b, i)
      carry(i) == \E j \in 1..(i - 1) :
                    sum(j) >= LimbBase /\ \A h \in (j + 1)..(i - 1) : sum(h) = LimbBase - 1
  IN  LStrip([i \in 1..(n + 1) |-> (sum(i) + (IF carry(i) THEN 1 ELSE 0)) % LimbBase])

\* -1, 0, 1 as a < b, a = b, a > b
LCmp(a, b) ==
  IF Len(a) > Len(b) THEN 1
  ELSE IF Len(a) < Len(b) THEN -1
  ELSE IF a = b THEN 0
  ELSE LET top == CHOOSE i \in 1..Len(a) :
                     a[i] # b[i] /\ \A j \in (i + 1)..Len(a) : a[j] = b[j]
       IN  IF a[top] > b[top] THEN 1 ELSE -1

\* a - b for a >= b, limb by limb: limb i lends when a limb below it is
\* short and no limb between the two has anything to spare
LSub(a, b) ==
  IF Len(a) = 0 \/ Len(b) = 0 THEN a
  ELSE
  LET borrow(i) == \E j \in 1..(i - 1) :
                     a[j] < Limb(b, j) /\ \A h \in (j + 1)..(i - 1) : a[h] <= Limb(b, h)
  IN  LStrip([i \in 1..Len(a) |->
                (a[i] - Limb(b, i) - (IF borrow(i) THEN 1 ELSE 0) + LimbBase) % LimbBase])

\* a * d for one limb d: the low halves of the limbs' products plus their
\* high halves one limb up
LMulSmall(a, d) ==
  IF d = 0 \/ a = <<>> THEN <<>>
  ELSE LAdd(LStrip([i \in 1..Len(a) |-> (a[i] * d) % LimbBase]),
            LStrip([i \in 1..(Len(a) + 1) |-> IF i = 1 THEN 0 ELSE (a[i - 1] * d) \div LimbBase]))

\* a * LimbBase^k
LShlLimbs(a, k) == IF a = <<>> THEN <<>> ELSE [i \in 1..k |-> 0] \o a

RECURSIVE LMulFrom(_, _, _)
\* the sum of a * b[i] * LimbBase^(i - 1) over the limbs i >= j of b
LMulFrom(a, b, j) ==
  IF j > Len(b) THEN <<>>
  ELSE LAdd(LShlLimbs(LMulSmall(a, b[j]), j - 1), LMulFrom(a, b, j + 1))

LMul(a, b) == IF a = <<>> \/ b = <<>> THEN <<>> ELSE LMulFrom(a, b, 1)

\* the number of bits of one limb
LimbLen(v) == CHOOSE k \in 0..LimbBits : v < Pow2(k) /\ (k = 0 \/ v >= Pow2(k - 1))

\* the number of significant bits of a
BitLen(a) == IF a = <<>> THEN 0 ELSE LimbBits * (Len(a) - 1) + LimbLen(a[Len(a)])

\* bit i of a, counted from 0
Bit(a, i) == (Limb(a, (i \div LimbBits) + 1) \div Pow2(i % LimbBits)) % 2

\* a * 2^k
LShl(a, k) ==
  IF a = <<>> THEN <<>>
  ELSE LShlLimbs(LStrip([i \in 1..(Len(a) + 1) |->
                           ((Limb(a, i) * Pow2(k % LimbBits)) % LimbBase)
                             + (Limb(a, i - 1) \div Pow2(LimbBits - (k % LimbBits)))]),
                 k \div LimbBits)

\* floor(a / 2^k)
LShr(a, k) ==
  IF k \div LimbBits >= Len(a) THEN <<>>
  ELSE LStrip([i \in 1..(Len(a) - (k \div LimbBits)) |->
                 (Limb(a, i + (k \div LimbBits)) \div Pow2(k % LimbBits))
                   + ((Limb(a, i + (k \div LimbBits) + 1) % Pow2(k % LimbBits))
                        * Pow2(LimbBits - (k % LimbBits)))])

\* whether a mod 2^k is not zero
LowBits(a, k) == \E i \in 0..(k - 1) : Bit(a, i) = 1

\* the largest d with b * d <= r, given hi >= d >= hi - 2
QFit(r, b, hi) ==
  IF LCmp(LMulSmall(b, hi), r) <= 0 THEN hi
  ELSE IF LCmp(LMulSmall(b, hi - 1), r) <= 0 THEN hi - 1
  ELSE hi - 2

\* the largest d with b * d <= r, for r < b * LimbBase and a divisor b whose
\* high limb has all its bits: the quotient of the two high limbs of r by
\* the high limb of b is that d or exceeds it by at most two
QDigit(r, b) ==
  IF ((Limb(r, Len(b) + 1) * LimbBase) + Limb(r, Len(b))) \div b[Len(b)] >= LimbBase
  THEN QFit(r, b, LimbBase - 1)
  ELSE QFit(r, b, ((Limb(r, Len(b) + 1) * LimbBase) + Limb(r, Len(b))) \div b[Len(b)])

\* the digit d and what it leaves of r
DivRest(r, b, d) == [d |-> d, r |-> LSub(r, LMulSmall(b, d))]

\* one digit of a quotient: the largest d with b * d <= r, and r - b * d
DivDigit(r, b) == DivRest(r, b, IF LCmp(r, b) < 0 THEN 0 ELSE QDigit(r, b))

RECURSIVE LDivStep(_, _, _, _, _)
\* long division, from limb i of a downwards: s holds the digit found last
\* and the remainder, q the digits before it
LDivStep(a, b, i, q, s) ==
  IF Len(q) < 0 \/ Len(s.r) < 0 THEN s
  ELSE IF i = 0 THEN [q |-> LStrip(<<s.d>> \o q), r |-> s.r]
  ELSE LDivStep(a, b, i - 1, <<s.d>> \o q, DivDigit(LStrip(<<a[i]>> \o s.r), b))

\* the quotient as it is and the remainder shifted back
Unshift(qr, sh) == [q |-> qr.q, r |-> LShr(qr.r, sh)]

\* a / b from a2 and b2, the two shifted by sh bits: the division starts at
\* the first limb of a2 where the remainder can reach b2
DivShifted(a, sh, a2, b2) ==
  IF Len(a2) < Len(b2) THEN [q |-> <<>>, r |-> a]
  ELSE Unshift(LDivStep(a2, b2, Len(a2) - Len(b2) + 1, <<>>,
                        [d |-> 0, r |-> SubSeq(a2, Len(a2) - Len(b2) + 2, Len(a2))]),
               sh)

\* floor(a / b) and a mod b, for b > 0: both are shifted until the high limb
\* of b has all its bits, which leaves the quotient as it is
LDivMod(a, b) ==
  LET sh == LimbBits - LimbLen(b[Len(b)])
  IN  DivShifted(a, sh, LShl(a, sh), LShl(b, sh))

\* x * x mod b
LSqMod(x, b) == LDivMod(LMul(x, x), b).r

RECURSIVE LSqTimes(_, _, _)
\* x squared n times, mod b
LSqTimes(x, b, n) ==
  IF Len(x) >= 0 /\ n > 0 THEN LSqTimes(LSqMod(x, b), b, n - 1) ELSE x

\* h * 2^k mod b
LShlMod(h, k, b) == IF Len(h) >= 0 THEN LDivMod(LShl(h, k), b).r ELSE <<>>

RECURSIVE LPow2Mod(_, _)
\* 2^d mod b, by repeated squaring, four squarings at a time
LPow2Mod(d, b) ==
  IF d < LimbBits THEN LDivMod(<<Pow2(d)>>, b).r
  ELSE LShlMod(LSqTimes(LPow2Mod(d \div 16, b), b, 4), d % 16, b)

(***************************************************************************)
(* JavaScript numbers.  [k, s, m, e]: kind "fin" | "inf" | "nan", sign s,  *)
(* and for a finite non-zero number the value s * m * 2^e with m of        *)
(* exactly 53 bits; zero is m = <<>>, e = 0.                               *)
(***************************************************************************)

\* Number.MAX_VALUE < 2^1024: a result of 2^1024 or more is Infinity
MaxExp == 1024

\* a double keeps 53 significant bits
MantBits == 53

NaN == [k |-> "nan", s |-> 1, m |-> <<>>, e |-> 0]

Inf(s) == [k |-> "inf", s |-> s, m |-> <<>>, e |-> 0]

Zero == [k |-> "fin", s |-> 1, m |-> <<>>, e |-> 0]

\* the number s * m * 2^e, or Infinity when it is 2^1024 or more
Finite(s, m, e) ==
  IF e + MantBits > MaxExp THEN Inf(s) ELSE [k |-> "fin", s |-> s, m |-> m, e |-> e]

\* r is the mantissa after rounding up: one bit too long when that carried
Carried(s, r, e) ==
  IF BitLen(r) > MantBits THEN Finite(s, LShr(r, 1), e + 1) ELSE Finite(s, r, e)

\* top holds the 53 high bits of a, k bits are cut off: up when the first of
\* them is set and either a later one is (or sticky) or top is odd
Rounded(s, a, e, sticky, k, top) ==
  IF /\ Bit(a, k - 1) = 1
     /\ (sticky \/ (k > 1 /\ LowBits(a, k - 1)) \/ Bit(top, 0) = 1)
  THEN Carried(s, LAdd(top, <<1>>), e + k)
  ELSE Finite(s, top, e + k)

\* a keeps its 53 high bits: k bits are cut off (added when k <= 0)
Cut(s, a, e, sticky, k) ==
  IF k > 0 THEN Rounded(s, a, e, sticky, k, LShr(a, k))
  ELSE Finite(s, LShl(a, -k), e + k)

\* the double nearest to s * a * 2^e (a taken a fraction of its last bit
\* larger when sticky), ties to even
MkNum(s, a, e, sticky) ==
  IF a = <<>> THEN Zero ELSE Cut(s, a, e, sticky, BitLen(a) - MantBits)

\* the double of an integer TLC can hold
N(n) == MkNum(IF n < 0 THEN -1 ELSE 1, LOfNat(IF n < 0 THEN -n ELSE n), 0, FALSE)

\* the double n / 2^d
Frac(n, d) == MkNum(IF n < 0 THEN -1 ELSE 1, LOfNat(IF n < 0 THEN -n ELSE n), -d, FALSE)

\* the double (2^p + c) * 2^q, for 15 <= p < 53 and 0 <= c < 2^15
Pow2Plus(p, c, q) == MkNum(1, LAdd(LShl(<<1>>, p), LOfNat(c)), q, FALSE)

IsZero(x) == x.k = "fin" /\ x.m = <<>>

\* Number.isInteger
IsInteger(x) ==
  /\ x.k = "fin"
  /\ \/ x.e >= 0
     \/ IsZero(x)
     \/ -x.e < MantBits /\ ~LowBits(x.m, -x.e)

\* the value of an integer-valued double that TLC can hold
ToInt(x) == IF IsZero(x) THEN 0 ELSE x.s * LToNat(LShr(x.m, -x.e))

\* -1, 0, 1 as |x| < |y|, |x| = |y|, |x| > |y|, for finite x and y
MagCmp(x, y) ==
  IF IsZero(x) THEN (IF IsZero(y) THEN 0 ELSE -1)
  ELSE IF IsZero(y) THEN 1
  ELSE IF x.e > y.e THEN 1
  ELSE IF x.e < y.e THEN -1
  ELSE LCmp(x.m, y.m)

\* x < y (false when either is NaN)
Less(x, y) ==
  IF x.k = "nan" \/ y.k = "nan" THEN FALSE
  ELSE IF x.k = "inf" THEN x.s = -1 /\ ~(y.k = "inf" /\ y.s = -1)
  ELSE IF y.k = "inf" THEN y.s = 1
  ELSE IF IsZero(x) THEN (~IsZero(y) /\ y.s = 1)
  ELSE IF IsZero(y) THEN x.s = -1
  ELSE IF x.s # y.s THEN x.s = -1
  ELSE IF x.s = 1 THEN MagCmp(x, y) < 0 ELSE MagCmp(x, y) > 0

\* x <= y
LessEq(x, y) ==
  IF x.k = "nan" \/ y.k = "nan" THEN FALSE ELSE ~Less(y, x)

\* x === y on numbers
NumEq(x, y) == x.k # "nan" /\ y.k # "nan" /\ x = y

\* Math.abs
Abs(x) == [x EXCEPT !.s = 1]

\* hi + lo for finite hi, lo > 0 with the exponent of hi not the smaller
AddAligned(hi, lo) ==
  IF hi.e - lo.e > MantBits + 2 THEN hi
  ELSE MkNum(1, LAdd(LShl(hi.m, hi.e - lo.e), lo.m), lo.e, FALSE)

\* x + y for x, y >= 0
JSAdd(x, y) ==
  IF x.k = "nan" \/ y.k = "nan" THEN NaN
  ELSE IF x.k = "inf" \/ y.k = "inf" THEN Inf(1)
  ELSE IF IsZero(x) THEN y
  ELSE IF IsZero(y) THEN x
  ELSE IF x.e >= y.e THEN AddAligned(x, y)
  ELSE AddAligned(y, x)

\* x * y
JSMul(x, y) ==
  IF x.k = "nan" \/ y.k = "nan" THEN NaN
  ELSE IF x.k = "inf" \/ y.k = "inf"
       THEN (IF IsZero(x) \/ IsZero(y) THEN NaN ELSE Inf(x.s * y.s))
  ELSE IF IsZero(x) \/ IsZero(y) THEN Zero
  ELSE MkNum(x.s * y.s, LMul(x.m, y.m), x.e + y.e, FALSE)

\* the double nearest to s * (q + a fraction when r is not zero) * 2^e
Quotient(s, qr, e) == MkNum(s, qr.q, e, qr.r # <<>>)

\* x / y
JSDiv(x, y) ==
  IF x.k = "nan" \/ y.k = "nan" THEN NaN
  ELSE IF x.k = "inf" THEN (IF y.k = "inf" THEN NaN ELSE Inf(x.s * y.s))
  ELSE IF y.k = "inf" THEN Zero
  ELSE IF IsZero(y) THEN (IF IsZero(x) THEN NaN ELSE Inf(x.s * y.s))
  ELSE IF IsZero(x) THEN Zero
  ELSE Quotient(x.s * y.s, LDivMod(LShl(x.m, MantBits + 2), y.m),
                x.e - y.e - (MantBits + 2))

\* a * 2^d mod b
LMulPow2Mod(a, d, b) == LDivMod(LMul(LDivMod(a, b).r, LPow2Mod(d, b)), b).r

\* x % y: the remainder of the truncating division, exact, with the sign of x
JSMod(x, y) ==
  IF x.k = "nan" \/ y.k = "nan" \/ x.k = "inf" THEN NaN
  ELSE IF y.k = "inf" THEN x
  ELSE IF IsZero(y) THEN NaN
  ELSE IF IsZero(x) THEN Zero
  ELSE IF x.e >= y.e THEN MkNum(x.s, LMulPow2Mod(x.m, x.e - y.e, y.m), y.e, FALSE)
  ELSE IF y.e - x.e >= MantBits THEN x
  ELSE MkNum(x.s, LDivMod(x.m, LShl(y.m, y.e - x.e)).r, x.e, FALSE)


(***************************************************************************)
(* JSON values: numbers, strings (sequences of characters), arrays,       *)
(* objects (ordered key/value pairs with distinct keys), null, and         *)
(* JavaScript's undefined.                                                 *)
(***************************************************************************)

VNum(x) == [t |-> "num", n |-> x]

VStr(chars) == [t |-> "str", chars |-> chars]

VArr(items) == [t |-> "arr", items |-> items]

VObj(fields) == [t |-> "obj", fields |-> fields]

VNull == [t |-> "null"]

Undefined == [t |-> "undefined"]

VBool(b) == [t |-> "bool", b |-> b]

\* a loop that never exits: the call does not return
Diverges == [k |-> "diverges", s |-> 1, m |-> <<>>, e |-> 0]

\* the array of the doubles of a sequence of small integers
IntArr(ns) == VArr([i \in 1..Len(ns) |-> VNum(N(ns[i]))])

(***************************************************************************)
(* The computation library (src/index.js:19-75).                           *)
(***************************************************************************)

\* one pass of the loop body at index i (JavaScript's, from 0), if i < n
FibStep(series, i, n) ==
  IF Less(N(i), n) /\ Len(series) = i
  THEN Append(series, JSAdd(series[i], series[i - 1]))
  ELSE series

RECURSIVE FibLoop(_, _, _, _)
\* the passes i = lo .. hi of the loop, in order (cut in eight parts, so that
\* a thousand passes nest four deep; a pass that does not push leaves the
\* series as it is, and so does every pass after it)
FibLoop(series, lo, hi, n) ==
  IF lo > hi THEN series
  ELSE IF lo = hi THEN FibStep(series, lo, n)
  ELSE LET w == ((hi - lo) \div 8) + 1
           end(j) == IF lo + (j * w) - 1 < hi THEN lo + (j * w) - 1 ELSE hi
           s1 == FibLoop(series, lo, end(1), n)
           s2 == FibLoop(s1, lo + w, end(2), n)
           s3 == FibLoop(s2, lo + (2 * w), end(3), n)
           s4 == FibLoop(s3, lo + (3 * w), end(4), n)
           s5 == FibLoop(s4, lo + (4 * w), end(5), n)
           s6 == FibLoop(s5, lo + (5 * w), end(6), n)
           s7 == FibLoop(s6, lo + (6 * w), end(7), n)
       IN  IF /\ Len(s1) > 0 /\ Len(s2) > 0 /\ Len(s3) > 0 /\ Len(s4) > 0
              /\ Len(s5) > 0 /\ Len(s6) > 0 /\ Len(s7) > 0
           THEN FibLoop(s7, lo + (7 * w), hi, n)
           ELSE series

\* function fibonacci(n), for a finite n below 2^30
fibonacci(n) ==
  IF LessEq(n, Zero) THEN <<>>
  ELSE IF NumEq(n, N(1)) THEN <<Zero>>
  ELSE LET last == IF n.e >= 0 THEN ToInt(n) ELSE LToNat(LShr(n.m, -n.e))
       IN  FibLoop(<<Zero, N(1)>>, 2, last, n)

RECURSIVE IsPrimeLoop(_, _)
\* for (let i = 3; i * i <= num; i += 2) if (num % i === 0) return false
IsPrimeLoop(num, i) ==
  IF ~LessEq(JSMul(i, i), num) THEN TRUE
  ELSE IF IsZero(JSMod(num, i)) THEN FALSE
  ELSE IsPrimeLoop(num, JSAdd(i, N(2)))

\* isPrime without the trial division by odd numbers
isPrime_noloop(num) ==
  IF Less(num, N(2)) THEN FALSE
  ELSE IF NumEq(num, N(2)) THEN TRUE
  ELSE ~IsZero(JSMod(num, N(2)))

\* function isPrime(num)
isPrime(num) ==
  IF Less(num, N(2)) THEN FALSE
  ELSE IF NumEq(num, N(2)) THEN TRUE
  ELSE IF IsZero(JSMod(num, N(2))) THEN FALSE
  ELSE IsPrimeLoop(num, N(3))

\* Number.isInteger(n) && n > 0, on an array element
IsPosInt(v) == v.t = "num" /\ IsInteger(v.n) /\ Less(Zero, v.n)

\* Number.isInteger(n) && n >= 0, on an array element
IsNonNegInt(v) == v.t = "num" /\ IsInteger(v.n) /\ LessEq(Zero, v.n)

KeepPrime(v) == IsPosInt(v) /\ isPrime(v.n)

\* function filterPrimes(arr)
filterPrimes(arr) ==
  IF arr.t # "arr" THEN VArr(<<>>) ELSE VArr(SelectSeq(arr.items, KeepPrime))

RECURSIVE GcdLoop(_, _)
\* while (b !== 0) { t = b; b = a % b; a = t }: NaN !== 0 holds and
\* a % NaN is NaN, so the loop cannot exit once b is NaN
GcdLoop(a, b) ==
  IF b.k = "nan" THEN Diverges
  ELSE IF IsZero(b) THEN a
  ELSE GcdLoop(b, JSMod(a, b))

\* function gcd(a, b)
gcd(a, b) == GcdLoop(Abs(a), Abs(b))

\* result = (result * nums[i]) / gcd(result, nums[i])
LcmStep(result, x) ==
  LET g == gcd(result, x)
  IN  IF g.k = "diverges" THEN Diverges ELSE JSDiv(JSMul(result, x), g)

RECURSIVE LcmFold(_, _, _, _)
\* the passes i = lo .. hi of the loop, in order (cut in four parts, so that
\* twenty passes nest three deep)
LcmFold(result, nums, lo, hi) ==
  IF result.k = "diverges" \/ lo > hi THEN result
  ELSE IF lo = hi THEN LcmStep(result, nums[lo].n)
  ELSE LET w == ((hi - lo) \div 4) + 1
           end(j) == IF lo + (j * w) - 1 < hi THEN lo + (j * w) - 1 ELSE hi
           r1 == LcmFold(result, nums, lo, end(1))
           r2 == LcmFold(r1, nums, lo + w, end(2))
           r3 == LcmFold(r2, nums, lo + (2 * w), end(3))
       IN  IF r1.k = "diverges" THEN r1
           ELSE IF r2.k = "diverges" THEN r2
           ELSE IF r3.k = "diverges" THEN r3
           ELSE LcmFold(r3, nums, lo + (3 * w), hi)

\* function lcmOfArray(arr) of src/index.js
lcmOfArray(arr) ==
  IF arr.t # "arr" \/ arr.items = <<>> THEN Zero
  ELSE LET nums == SelectSeq(arr.items, IsPosInt)
       IN  IF nums = <<>> THEN Zero ELSE LcmFold(nums[1].n, nums, 2, Len(nums))

RECURSIVE HcfFold(_, _, _, _)
HcfFold(result, nums, lo, hi) ==
  IF result.k = "diverges" \/ lo > hi THEN result
  ELSE IF lo = hi THEN gcd(result, nums[lo].n)
  ELSE LET w == ((hi - lo) \div 4) + 1
           end(j) == IF lo + (j * w) - 1 < hi THEN lo + (j * w) - 1 ELSE hi
           r1 == HcfFold(result, nums, lo, end(1))
           r2 == HcfFold(r1, nums, lo + w, end(2))
           r3 == HcfFold(r2, nums, lo + (2 * w), end(3))
       IN  IF r1.k = "diverges" THEN r1
           ELSE IF r2.k = "diverges" THEN r2
           ELSE IF r3.k = "diverges" THEN r3
           ELSE HcfFold(r3, nums, lo + (3 * w), hi)

\* function hcfOfArray(arr) of src/index.js
hcfOfArray(arr) ==
  IF arr.t # "arr" \/ arr.items = <<>> THEN Zero
  ELSE LET nums == SelectSeq(arr.items, IsPosInt)
       IN  IF nums = <<>> THEN Zero ELSE HcfFold(nums[1].n, nums, 2, Len(nums))

\* function lcmOfArray(arr) of src/unnamed/part_000: no element is filtered
lcmOfArray_p0(arr) ==
  IF arr.t # "arr" \/ arr.items = <<>> THEN Zero
  ELSE LcmFold(arr.items[1].n, arr.items, 2, Len(arr.items))

\* function hcfOfArray(arr) of src/unnamed/part_000: no element is filtered
hcfOfArray_p0(arr) ==
  IF arr.t # "arr" \/ arr.items = <<>> THEN Zero
  ELSE HcfFold(arr.items[1].n, arr.items, 2, Len(arr.items))

(***************************************************************************)
(* Strings are sequences of characters.                                    *)
(***************************************************************************)

\* the white space of String.prototype.trim and of the pattern \s
IsWs(c) == c \in {" ", "\t", "\n"}

\* String.prototype.trim
Trim(chars) ==
  IF \A i \in 1..Len(chars) : IsWs(chars[i]) THEN <<>>
  ELSE LET first == CHOOSE i \in 1..Len(chars) :
                       ~IsWs(chars[i]) /\ \A j \in 1..(i - 1) : IsWs(chars[j])
           last == CHOOSE i \in 1..Len(chars) :
                      ~IsWs(chars[i]) /\ \A j \in (i + 1)..Len(chars) : IsWs(chars[j])
       IN  SubSeq(chars, first, last)

\* text.split(/\s+/)[0]: the characters before the first white space
FirstToken(chars) ==
  IF \A i \in 1..Len(chars) : ~IsWs(chars[i]) THEN chars
  ELSE LET ws == CHOOSE i \in 1..Len(chars) :
                    IsWs(chars[i]) /\ \A j \in 1..(i - 1) : ~IsWs(chars[j])
       IN  SubSeq(chars, 1, ws - 1)

\* the instruction appended to every question (src/index.js:82)
Instruction == <<"\n", "\n", "Respond with only a single word answer. No explanation, no punctuation.">>

\* the instruction of src/unnamed/part_000:83-84
Instruction_p0 == <<"\n", "Respond with only ONE WORD. No punctuation.">>

(***************************************************************************)
(* The process: its configuration, read once at startup, and the requests  *)
(* it is handling.  Nothing else is kept between requests.                 *)
(***************************************************************************)

VARIABLES
  variant,         \* which file is running: "index" or "part_000"
  genAI,           \* whether GEMINI_API_KEY was set (genAI !== null)
  OFFICIAL_EMAIL,  \* the configured e-mail address
  req,             \* req[i]: the request of connection i
  pc,              \* pc[i]: "free", "awaiting" (the AI call), "done", "hung"
  sent,            \* sent[i]: the responses written to connection i
  calls,           \* calls[i]: the prompts connection i sent to the AI provider
  ran,             \* ran[i]: the computation functions connection i invoked
  call             \* a direct call of a library function: [fn, arg, ret]

vars == <<variant, genAI, OFFICIAL_EMAIL, req, pc, sent, calls, ran, call>>

config == <<variant, genAI, OFFICIAL_EMAIL>>

NoReq == [method |-> "", path |-> "", ctype |-> "", payload |-> [t |-> "none"]]

NoCall == [fn |-> "", arg |-> Undefined, ret |-> Undefined]

validKeys == <<"fibonacci", "prime", "lcm", "hcf", "AI", "ai">>

IsValidKey(k) == \E j \in 1..Len(validKeys) : validKeys[j] = k

\* Object.keys(body) cut down to the first key
Keys_first(body) ==
  IF body.t = "obj" /\ body.fields # <<>> THEN <<body.fields[1].key>> ELSE <<>>

\* Object.keys(body): the keys of an object in insertion order, the indices
\* of an array
Keys(body) ==
  IF body.t = "obj" THEN [j \in 1..Len(body.fields) |-> body.fields[j].key]
  ELSE IF body.t = "arr" THEN [j \in 1..Len(body.items) |-> ToString(j - 1)]
  ELSE <<>>

\* body[key]
Get(body, key) ==
  IF body.t = "obj" /\ \E j \in 1..Len(body.fields) : body.fields[j].key = key
  THEN body.fields[CHOOSE j \in 1..Len(body.fields) : body.fields[j].key = key].val
  ELSE Undefined

\* keys.find((k) => validKeys.includes(k)), "" when there is none
ProvidedKey(keys) ==
  IF \E j \in 1..Len(keys) : IsValidKey(keys[j])
  THEN keys[CHOOSE j \in 1..Len(keys) :
              IsValidKey(keys[j]) /\ \A h \in 1..(j - 1) : ~IsValidKey(keys[h])]
  ELSE ""

\* String.prototype.toLowerCase on a key
ToLowerCase(k) == IF k = "AI" THEN "ai" ELSE k

\* providedKey.toLowerCase() === 'ai' ? 'AI' : providedKey
NormalKey(providedKey) == IF ToLowerCase(providedKey) = "ai" THEN "AI" ELSE providedKey

\* JSON.stringify of a value: Infinity and NaN are written as null
RECURSIVE ToJson(_)
ToJson(v) ==
  IF v.t = "num" THEN (IF v.n.k = "fin" THEN v ELSE VNull)
  ELSE IF v.t = "arr" THEN VArr([j \in 1..Len(v.items) |-> ToJson(v.items[j])])
  ELSE v

\* res.status(status).json({ is_success: false, official_email, error })
Failure(status, message) ==
  [status |-> status, has |-> {"is_success", "official_email", "error"},
   is_success |-> FALSE, official_email |-> OFFICIAL_EMAIL,
   data |-> Undefined, error |-> message]

\* a success envelope that leaves data out
Success_bare(data) ==
  [status |-> 200, has |-> {"is_success", "official_email"},
   is_success |-> TRUE, official_email |-> OFFICIAL_EMAIL,
   data |-> Undefined, error |-> ""]

\* res.status(200).json({ is_success: true, official_email, data })
Success(data) ==
  [status |-> 200,
   has |-> {"is_success", "official_email"}
             \cup (IF data.t = "undefined" THEN {} ELSE {"data"}),
   is_success |-> TRUE, official_email |-> OFFICIAL_EMAIL,
   data |-> ToJson(data), error |-> ""]

\* res.status(200).json({ is_success: true, official_email })
HealthBody ==
  [status |-> 200, has |-> {"is_success", "official_email"},
   is_success |-> TRUE, official_email |-> OFFICIAL_EMAIL,
   data |-> Undefined, error |-> ""]

\* what a handler does with a request: it answers, it suspends on the AI
\* call with a prompt, or it never returns
Respond(res, fns) == [kind |-> "respond", res |-> res, ran |-> fns, prompt |-> <<>>]

Await(prompt) ==
  [kind |-> "await", res |-> HealthBody, ran |-> <<"getAIResponse">>, prompt |-> prompt]

Hang(fns) == [kind |-> "hang", res |-> HealthBody, ran |-> fns, prompt |-> <<>>]

\* the array of a series of numbers
NumArr(series) == VArr([j \in 1..Len(series) |-> VNum(series[j])])

\* the answer with the result of lcmOfArray or hcfOfArray, if it returned
Computed(result, fn) ==
  IF result.k = "diverges" THEN Hang(<<fn>>) ELSE Respond(Success(VNum(result)), <<fn>>)

(***************************************************************************)
(* POST /bfhl of src/index.js (lines 118-291), up to the response or to    *)
(* the suspension on the AI call.                                          *)
(***************************************************************************)

\* case 'fibonacci' with the upper limit off by one
CaseFibonacci_1001(val) ==
  IF val.t # "num" \/ ~IsInteger(val.n) \/ Less(val.n, Zero) \/ Less(N(1001), val.n)
  THEN Respond(Failure(400, "fibonacci must be a non-negative integer (0-1000)"), <<>>)
  ELSE Respond(Success(NumArr(fibonacci(val.n))), <<"fibonacci">>)

\* case 'fibonacci' (lines 145-156)
CaseFibonacci(val) ==
  IF val.t # "num" \/ ~IsInteger(val.n) \/ Less(val.n, Zero) \/ Less(N(1000), val.n)
  THEN Respond(Failure(400, "fibonacci must be a non-negative integer (0-1000)"), <<>>)
  ELSE Respond(Success(NumArr(fibonacci(val.n))), <<"fibonacci">>)

\* case 'prime' (lines 158-184)
CasePrime(arr) ==
  IF arr.t # "arr"
  THEN Respond(Failure(400, "prime must be an array of integers"), <<>>)
  ELSE IF Len(SelectSeq(arr.items, IsNonNegInt)) # Len(arr.items)
  THEN Respond(Failure(400, "prime array must contain only integers"), <<>>)
  ELSE IF Len(arr.items) > 100
  THEN Respond(Failure(400, "prime array too large"), <<>>)
  ELSE Respond(Success(filterPrimes(arr)), <<"filterPrimes">>)

\* case 'lcm' (lines 186-212)
CaseLcm(arr) ==
  IF arr.t # "arr"
  THEN Respond(Failure(400, "lcm must be an array of integers"), <<>>)
  ELSE IF Len(SelectSeq(arr.items, IsPosInt)) # Len(arr.items)
  THEN Respond(Failure(400, "lcm array must contain only positive integers"), <<>>)
  ELSE IF Len(arr.items) > 20
  THEN Respond(Failure(400, "lcm array too large"), <<>>)
  ELSE Computed(lcmOfArray(arr), "lcmOfArray")

\* case 'hcf' (lines 214-240)
CaseHcf(arr) ==
  IF arr.t # "arr"
  THEN Respond(Failure(400, "hcf must be an array of integers"), <<>>)
  ELSE IF Len(SelectSeq(arr.items, IsPosInt)) # Len(arr.items)
  THEN Respond(Failure(400, "hcf array must contain only positive integers"), <<>>)
  ELSE IF Len(arr.items) > 20
  THEN Respond(Failure(400, "hcf array too large"), <<>>)
  ELSE Computed(hcfOfArray(arr), "hcfOfArray")

Unavailable ==
  Failure(503, "AI service unavailable. Set GEMINI_API_KEY environment variable.")

\* getAIResponse that calls the provider without looking at genAI
AskAI_nokey(question) ==
  IF question.t # "str" \/ question.chars = <<>>
  THEN Respond(Unavailable, <<"getAIResponse">>)
  ELSE Await(question.chars \o Instruction)

\* getAIResponse(question) up to its await (lines 77-83): null at once
\* without a credential or a question, else the call to the provider
AskAI(question) ==
  IF ~genAI \/ question.t # "str" \/ question.chars = <<>>
  THEN Respond(Unavailable, <<"getAIResponse">>)
  ELSE Await(question.chars \o Instruction)

\* body[key] ?? body.ai
Question(body) ==
  IF Get(body, "AI").t \in {"undefined", "null"} THEN Get(body, "ai")
  ELSE Get(body, "AI")

\* case 'AI' (lines 242-258)
CaseAI(question) ==
  IF question.t # "str" \/ Trim(question.chars) = <<>>
  THEN Respond(Failure(400, "AI must receive a non-empty string question"), <<>>)
  ELSE IF Len(question.chars) > 500
  THEN Respond(Failure(400, "Question too long"), <<>>)
  ELSE AskAI(VStr(Trim(question.chars)))

\* the handler of POST /bfhl on the parsed body (lines 118-282)
Bfhl(body) ==
  IF body.t \notin {"obj", "arr"}
  THEN Respond(Failure(400, "Invalid request body"), <<>>)
  ELSE LET keys == Keys(body)
           providedKey == ProvidedKey(keys)
           key == NormalKey(providedKey)
       IN  IF providedKey = "" \/ Len(keys) > 1
           THEN Respond(Failure(400,
                  "Request must contain exactly one of: fibonacci, prime, lcm, hcf, AI"), <<>>)
           ELSE CASE key = "fibonacci" -> CaseFibonacci(Get(body, key))
                  [] key = "prime" -> CasePrime(Get(body, key))
                  [] key = "lcm" -> CaseLcm(Get(body, key))
                  [] key = "hcf" -> CaseHcf(Get(body, key))
                  [] key = "AI" -> CaseAI(Question(body))
                  [] OTHER -> Respond(Failure(400, "Invalid key"), <<>>)

\* getAIResponse after its await (lines 84-90): null when the call threw or
\* gave no text, else the first word of the text
Answer(reply) ==
  IF reply.kind # "text" THEN VNull
  ELSE IF Trim(reply.text) = <<>> THEN VNull
  ELSE VStr(FirstToken(Trim(reply.text)))

\* the rest of case 'AI' without the check of the answer
AfterAI_unchecked(answer) == Success(answer)

\* the rest of case 'AI' (lines 259-282)
AfterAI(answer) ==
  IF answer.t = "null" THEN Unavailable ELSE Success(answer)

(***************************************************************************)
(* POST /bfhl of src/unnamed/part_000 (lines 140-204).                     *)
(***************************************************************************)

\* catch (err): res.status(400).json({ ..., error: err.message })
Thrown(message) == Respond(Failure(400, message), <<>>)

Unavailable_p0 == Failure(503, "AI service unavailable")

\* getAIResponse(question) up to its await (lines 78-85)
AskAI_p0(question) ==
  IF ~genAI \/ question.t # "str" \/ question.chars = <<>>
  THEN Respond(Unavailable_p0, <<"getAIResponse">>)
  ELSE Await(question.chars \o Instruction_p0)

\* the handler of POST /bfhl on the parsed body (lines 140-204)
Bfhl_p0(body) ==
  LET keys == Keys(body)
      providedKey == ProvidedKey(keys)
      key == NormalKey(providedKey)
      val == Get(body, key)
  IN  IF providedKey = "" \/ Len(keys) # 1
      THEN Respond(Failure(400,
             "Request must contain exactly one of: fibonacci, prime, lcm, hcf, AI"), <<>>)
      ELSE CASE key = "fibonacci" ->
                  IF val.t # "num" \/ ~IsInteger(val.n) \/ Less(val.n, Zero)
                       \/ Less(N(1000), val.n)
                  THEN Thrown("Invalid fibonacci input")
                  ELSE Respond(Success(NumArr(fibonacci(val.n))), <<"fibonacci">>)
             [] key = "prime" ->
                  IF val.t # "arr" THEN Thrown("Prime must be array")
                  ELSE Respond(Success(filterPrimes(val)), <<"filterPrimes">>)
             [] key = "lcm" -> Computed(lcmOfArray_p0(val), "lcmOfArray")
             [] key = "hcf" -> Computed(hcfOfArray_p0(val), "hcfOfArray")
             [] OTHER -> AskAI_p0(val)

\* the rest of case 'AI' (lines 182-196); getAIResponse never gives ""
AfterAI_p0(answer) ==
  IF answer.t = "null" THEN Unavailable_p0 ELSE Success(answer)

(***************************************************************************)
(* Requests and the provider's replies.                                    *)
(***************************************************************************)

Req(method, path, ctype, payload) ==
  [method |-> method, path |-> path, ctype |-> ctype, payload |-> payload]

\* a JSON POST to /bfhl
Post(payload) == Req("POST", "/bfhl", "json", payload)

Field(key, val) == [key |-> key, val |-> val]

\* an object with one key
Obj1(key, val) == VObj(<<Field(key, val)>>)

\* bytes express.json() rejects: not JSON, a top-level scalar, over 10kb
Malformed == [t |-> "malformed"]

NoBody == [t |-> "none"]

\* a string of n letters
Letters(n) == VStr([j \in 1..n |-> "a"])

\* the array 1, 2, ..., n
UpTo(n) == VArr([j \in 1..n |-> VNum(N(j))])

\* 2^27 + 1 and 2^27 + 3: coprime, with a product above 2^53
BigA == VNum(Pow2Plus(27, 1, 0))

BigB == VNum(Pow2Plus(27, 3, 0))

\* (2^52 + 1) * 2^971, about 1.8e308: three times it is Infinity
Huge == VNum(Pow2Plus(52, 1, 971))

FibPayloads ==
  {VNum(N(0)), VNum(N(1)), VNum(N(2)), VNum(N(7)), VNum(N(80)), VNum(N(1000)),
   VNum(N(1001)), VNum(N(-1)), VNum(Frac(15, 1)), VStr(<<"7">>), IntArr(<<7>>), VNull}

PrimePayloads ==
  {IntArr(<<>>), IntArr(<<2, 4, 7, 9, 11>>), IntArr(<<0, 1>>), IntArr(<<2, -3>>),
   VArr(<<VNum(N(3)), VNum(Frac(5, 1))>>), VStr(<<"2">>), VNum(N(5)),
   UpTo(100), UpTo(101)}

LcmPayloads ==
  {IntArr(<<>>), IntArr(<<12, 18, 24>>), IntArr(<<24, 36, 60>>), IntArr(<<5>>),
   IntArr(<<4, 0>>), IntArr(<<-2, 6>>), VArr(<<VNum(Frac(3, 1))>>), VNum(N(7)),
   VStr(<<"6">>), UpTo(20), UpTo(21), VArr(<<BigA, BigB>>),
   VArr(<<Huge, VNum(N(3))>>), VArr(<<Huge, VNum(N(3)), VNum(N(5))>>)}

Questions ==
  {VStr(<<"h", "i">>), VStr(<<>>), VStr(<<" ", "\n">>),
   VStr(<<" ", "h", "i", " ", "y", "o", " ">>), Letters(500), Letters(501),
   VNum(N(5)), VNull}

Bodies ==
  {Obj1("fibonacci", v) : v \in FibPayloads}
    \cup {Obj1("prime", v) : v \in PrimePayloads}
    \cup {Obj1(k, v) : k \in {"lcm", "hcf"}, v \in LcmPayloads}
    \cup {Obj1(k, v) : k \in {"AI", "ai"}, v \in Questions}
    \cup {VObj(<<>>), Obj1("x", VNum(N(1))), Obj1("Ai", VStr(<<"h", "i">>)),
          VObj(<<Field("fibonacci", VNum(N(7))), Field("prime", IntArr(<<2>>))>>),
          VObj(<<Field("fibonacci", VNum(N(7))), Field("x", VNum(N(1)))>>),
          VObj(<<Field("x", VNum(N(1))), Field("fibonacci", VNum(N(7)))>>),
          VObj(<<Field("AI", VStr(<<"h", "i">>)), Field("ai", VStr(<<"y", "o">>))>>),
          VObj(<<Field("x", VNum(N(1))), Field("y", VNum(N(2)))>>),
          IntArr(<<>>), IntArr(<<1, 2>>)}

Requests ==
  {Post(b) : b \in Bodies}
    \cup {Req("POST", "/bfhl", c, Obj1("fibonacci", VNum(N(7)))) : c \in {"text", "none"}}
    \cup {Req("POST", "/bfhl", "text", Malformed), Req("POST", "/bfhl", "none", NoBody),
          Req("POST", "/bfhl", "json", NoBody)}
    \cup {Req("POST", p, "json", Malformed) : p \in {"/bfhl", "/nowhere"}}
    \cup {Req(m, p, "none", NoBody) :
            m \in {"GET", "POST"}, p \in {"/", "/health", "/bfhl", "/nowhere"}}

\* what the provider does with a call: it throws, it answers without text,
\* or it answers with a text
Threw == [kind |-> "throw", text |-> <<>>]

NoText == [kind |-> "notext", text |-> <<>>]

Text(chars) == [kind |-> "text", text |-> chars]

Replies ==
  {Threw, NoText, Text(<<>>), Text(<<" ", "\n">>), Text(<<"M", "u", "m">>),
   Text(<<" ", "Y", "e", "s", "\n", "i", "t", " ", "i", "s", " ">>)}

(***************************************************************************)
(* The middleware chain and the routes.  Node runs one handler at a time:  *)
(* an action is a handler from the arrival of its request to its response  *)
(* or to its await.  A handler that never returns blocks every other one.  *)
(***************************************************************************)

\* no handler is spinning
Running == \A j \in DOMAIN pc : pc[j] # "hung"

\* express.json() passes the error of a body it cannot parse to the error handler
JsonRejects(r) == r.ctype = "json" /\ r.payload.t = "malformed"

\* req.body after express.json(): the parsed JSON of a JSON request; for any
\* other request undefined or {}, as the version of express has it
ParsedBodies(r) ==
  IF r.ctype = "json" /\ r.payload.t \in {"obj", "arr"} THEN {r.payload}
  ELSE {Undefined, VObj(<<>>)}

\* the Content-Type middleware on /bfhl rejects the request (lines 98-107)
WrongContentType(r) == r.path = "/bfhl" /\ r.method = "POST" /\ r.ctype = "text"

\* the request reaches the routes
Routed(r) == ~JsonRejects(r) /\ ~WrongContentType(r)

\* the call has not settled yet
Pending == [kind |-> "pending", text |-> <<>>]

\* connection i, free until now, carries request r to the outcome o
Handle(i, r, o) ==
  /\ Running
  /\ pc[i] = "free"
  /\ req' = [req EXCEPT ![i] = r]
  /\ pc' = [pc EXCEPT ![i] = CASE o.kind = "respond" -> "done"
                                [] o.kind = "await" -> "awaiting"
                                [] OTHER -> "hung"]
  /\ sent' = [sent EXCEPT ![i] = IF o.kind = "respond" THEN <<o.res>> ELSE <<>>]
  /\ calls' = [calls EXCEPT ![i] = IF o.kind = "await"
                                    THEN <<[prompt |-> o.prompt, reply |-> Pending]>>
                                    ELSE <<>>]
  /\ ran' = [ran EXCEPT ![i] = o.ran]
  /\ UNCHANGED <<config, call>>

\* the global error handler of src/index.js (lines 303-310)
ErrorHandler == Failure(500, "Internal server error")

\* src/unnamed/part_000 has no error handler: express answers the parse
\* error itself, with status 400 and a page that is no envelope
DefaultErrorPage ==
  [status |-> 400, has |-> {}, is_success |-> FALSE,
   official_email |-> OFFICIAL_EMAIL, data |-> Undefined, error |-> ""]

JsonError(i, r) ==
  /\ JsonRejects(r)
  /\ Handle(i, r, Respond(IF variant = "index" THEN ErrorHandler ELSE DefaultErrorPage, <<>>))

ContentTypeReject(i, r) ==
  /\ ~JsonRejects(r)
  /\ WrongContentType(r)
  /\ Handle(i, r, Respond(Failure(400, "Content-Type must be application/json"), <<>>))

\* app.get('/health') (lines 111-116)
GetHealth(i, r) ==
  /\ Routed(r)
  /\ r.method = "GET" /\ r.path = "/health"
  /\ Handle(i, r, Respond(HealthBody, <<>>))

\* app.post('/bfhl') of src/index.js
PostBfhl(i, r) ==
  /\ variant = "index"
  /\ Routed(r)
  /\ r.method = "POST" /\ r.path = "/bfhl"
  /\ \E body \in ParsedBodies(r) : Handle(i, r, Bfhl(body))

\* the AI call of connection i settles with reply: the handler resumes
AIReply(i, reply) ==
  /\ variant = "index"
  /\ Running
  /\ pc[i] = "awaiting"
  /\ pc' = [pc EXCEPT ![i] = "done"]
  /\ sent' = [sent EXCEPT ![i] = Append(@, AfterAI(Answer(reply)))]
  /\ calls' = [calls EXCEPT ![i][1].reply = reply]
  /\ UNCHANGED <<config, req, ran, call>>

\* app.get('/') of src/unnamed/part_000 (lines 116-121)
RootBody ==
  [status |-> 200, has |-> {"message", "official_email"}, is_success |-> FALSE,
   official_email |-> OFFICIAL_EMAIL, data |-> Undefined, error |-> ""]

GetRoot_p0(i, r) ==
  /\ variant = "part_000"
  /\ Routed(r)
  /\ r.method = "GET" /\ r.path = "/"
  /\ Handle(i, r, Respond(RootBody, <<>>))

\* app.get('/bfhl') of src/unnamed/part_000 (lines 132-137)
GetBfhl_p0(i, r) ==
  /\ variant = "part_000"
  /\ Routed(r)
  /\ r.method = "GET" /\ r.path = "/bfhl"
  /\ Handle(i, r, Respond(HealthBody, <<>>))

\* app.post('/bfhl') of src/unnamed/part_000
PostBfhl_p0(i, r) ==
  /\ variant = "part_000"
  /\ Routed(r)
  /\ r.method = "POST" /\ r.path = "/bfhl"
  /\ \E body \in ParsedBodies(r) : Handle(i, r, Bfhl_p0(body))

AIReply_p0(i, reply) ==
  /\ variant = "part_000"
  /\ Running
  /\ pc[i] = "awaiting"
  /\ pc' = [pc EXCEPT ![i] = "done"]
  /\ sent' = [sent EXCEPT ![i] = Append(@, AfterAI_p0(Answer(reply)))]
  /\ calls' = [calls EXCEPT ![i][1].reply = reply]
  /\ UNCHANGED <<config, req, ran, call>>

\* a route of the running file matches the request
HasRoute(r) ==
  \/ r.method = "GET" /\ r.path = "/health"
  \/ r.method = "POST" /\ r.path = "/bfhl"
  \/ variant = "part_000" /\ r.method = "GET" /\ r.path \in {"/", "/bfhl"}

\* the 404 handler (lines 294-300)
NotFound(i, r) ==
  /\ Routed(r)
  /\ ~HasRoute(r)
  /\ Handle(i, r, Respond(Failure(404, "Not Found"), <<>>))

\* the response is written and the connection is done with: nothing of the
\* request is kept
Close(i) ==
  /\ Running
  /\ pc[i] = "done"
  /\ req' = [req EXCEPT ![i] = NoReq]
  /\ pc' = [pc EXCEPT ![i] = "free"]
  /\ sent' = [sent EXCEPT ![i] = <<>>]
  /\ calls' = [calls EXCEPT ![i] = <<>>]
  /\ ran' = [ran EXCEPT ![i] = <<>>]
  /\ UNCHANGED <<config, call>>

\* process start (lines 1-15), with n connections
Start(n) ==
  /\ variant \in {"index", "part_000"}
  /\ genAI \in BOOLEAN
  /\ OFFICIAL_EMAIL = "your.email@chitkara.edu.in"
  /\ req = [j \in 1..n |-> NoReq]
  /\ pc = [j \in 1..n |-> "free"]
  /\ sent = [j \in 1..n |-> <<>>]
  /\ calls = [j \in 1..n |-> <<>>]
  /\ ran = [j \in 1..n |-> <<>>]
  /\ call = NoCall

\* what connection i may do with a request of R
Serve(i, R) ==
  \/ \E r \in R : JsonError(i, r)
  \/ \E r \in R : ContentTypeReject(i, r)
  \/ \E r \in R : GetHealth(i, r)
  \/ \E r \in R : PostBfhl(i, r)
  \/ \E r \in R : PostBfhl_p0(i, r)
  \/ \E r \in R : GetRoot_p0(i, r)
  \/ \E r \in R : GetBfhl_p0(i, r)
  \/ \E r \in R : NotFound(i, r)
  \/ \E reply \in Replies : AIReply(i, reply)
  \/ \E reply \in Replies : AIReply_p0(i, reply)
  \/ Close(i)

(***************************************************************************)
(* Spec: one request at a time, over every kind of request.                *)
(***************************************************************************)

Init == Start(1)

Next == Serve(1, Requests)

Spec == Init /\ [][Next]_vars

(***************************************************************************)
(* SpecC: several connections at once, over one request of each kind.      *)
(***************************************************************************)

\* the connections open at once
MaxInFlight == 2

ConcRequests ==
  {Post(Obj1("fibonacci", VNum(N(7)))),
   Post(Obj1("lcm", IntArr(<<12, 18, 24>>))),
   Post(Obj1("lcm", VArr(<<Huge, VNum(N(3)), VNum(N(5))>>))),
   Post(Obj1("AI", VStr(<<"h", "i">>))),
   Post(Obj1("ai", VStr(<<"h", "i">>))),
   Req("POST", "/bfhl", "text", Obj1("fibonacci", VNum(N(7)))),
   Req("POST", "/bfhl", "json", Malformed),
   Req("GET", "/health", "none", NoBody),
   Req("GET", "/bfhl", "none", NoBody),
   Req("GET", "/", "none", NoBody),
   Req("GET", "/nowhere", "none", NoBody)}

InitC == Start(MaxInFlight)

NextC == \E i \in 1..MaxInFlight : Serve(i, ConcRequests)

SpecC == InitC /\ [][NextC]_vars

(***************************************************************************)
(* The library functions called directly, over bounded arguments.          *)
(***************************************************************************)

LibInit ==
  /\ variant = "index"
  /\ genAI = FALSE
  /\ OFFICIAL_EMAIL = "your.email@chitkara.edu.in"
  /\ req = <<>> /\ pc = <<>> /\ sent = <<>> /\ calls = <<>> /\ ran = <<>>
  /\ call = NoCall

\* fn(arg) is called and returns ret
Calls(fn, arg, ret) ==
  /\ call = NoCall
  /\ call' = [fn |-> fn, arg |-> arg, ret |-> ret]
  /\ UNCHANGED <<config, req, pc, sent, calls, ran>>

\* the caller takes the result
Return ==
  /\ call # NoCall
  /\ call' = NoCall
  /\ UNCHANGED <<config, req, pc, sent, calls, ran>>

\* the largest n of fibonacci(n)
MaxFibN == 110

CallFibonacci(n) == Calls("fibonacci", VNum(N(n)), NumArr(fibonacci(N(n))))

NextFib == (\E n \in 0..MaxFibN : CallFibonacci(n)) \/ Return

SpecFib == LibInit /\ [][NextFib]_vars

\* the largest argument of isPrime
MaxPrimeArg == 150

\* the longest array of filterPrimes
MaxPrimeLen == 3

PrimeElems == {-7, 0, 1, 2, 3, 4, 9, 25, 97}

\* the sequences over S of length at most n
SeqsUpTo(S, n) == UNION {[1..len -> S] : len \in 0..n}

CallIsPrime(x) == Calls("isPrime", VNum(N(x)), VBool(isPrime(N(x))))

CallFilterPrimes(ns) == Calls("filterPrimes", IntArr(ns), filterPrimes(IntArr(ns)))

NextPrime ==
  \/ \E x \in (-3)..MaxPrimeArg : CallIsPrime(x)
  \/ \E ns \in SeqsUpTo(PrimeElems, MaxPrimeLen) : CallFilterPrimes(ns)
  \/ Return

SpecPrime == LibInit /\ [][NextPrime]_vars

\* the longest array of lcmOfArray
MaxLcmLen == 3

LcmElems == {VNum(N(n)) : n \in {1, 2, 3, 4, 6, 9, 10, 12}} \cup {BigA, BigB}

\* the result of lcmOfArray as a value
LcmResult(arr) ==
  LET r == lcmOfArray(arr) IN IF r.k = "diverges" THEN Undefined ELSE VNum(r)

CallLcmOfArray(items) == Calls("lcmOfArray", VArr(items), LcmResult(VArr(items)))

NextLcm ==
  \/ \E items \in SeqsUpTo(LcmElems, MaxLcmLen) : CallLcmOfArray(items)
  \/ Return

SpecLcm == LibInit /\ [][NextLcm]_vars

(***************************************************************************)
(* The requests the claims speak of.                                       *)
(***************************************************************************)

\* connection i holds a JSON POST to /bfhl with an object body
JsonPost(i) ==
  /\ req[i].method = "POST" /\ req[i].path = "/bfhl" /\ req[i].ctype = "json"
  /\ req[i].payload.t = "obj"

RecognizedKeys == {"fibonacci", "prime", "lcm", "hcf", "AI", "ai"}

\* the body of connection i has exactly one key, a recognized one
OneKey(i) ==
  /\ JsonPost(i)
  /\ Len(req[i].payload.fields) = 1
  /\ req[i].payload.fields[1].key \in RecognizedKeys

TheKey(i) == req[i].payload.fields[1].key

TheVal(i) == req[i].payload.fields[1].val

\* v is an integer in lo..hi
IntIn(v, lo, hi) ==
  v.t = "num" /\ IsInteger(v.n) /\ LessEq(N(lo), v.n) /\ LessEq(v.n, N(hi))

\* v is an array of at most n integers, none below lo
IntsFrom(v, lo, n) ==
  /\ v.t = "arr"
  /\ Len(v.items) <= n
  /\ \A j \in 1..Len(v.items) :
       v.items[j].t = "num" /\ IsInteger(v.items[j].n) /\ LessEq(N(lo), v.items[j].n)

\* the constraint on the payload v of key k; a question is non-empty as sent
\* or non-empty after trimming
PayloadOk(k, v, trimmed) ==
  CASE k = "fibonacci" -> IntIn(v, 0, 1000)
    [] k = "prime" -> IntsFrom(v, 0, 100)
    [] k \in {"lcm", "hcf"} -> IntsFrom(v, 1, 20)
    [] OTHER -> /\ v.t = "str"
                /\ Len(v.chars) <= 500
                /\ (IF trimmed THEN \E j \in 1..Len(v.chars) : ~IsWs(v.chars[j])
                    ELSE v.chars # <<>>)

\* connection i has its one response
Answered(i) == pc[i] = "done" /\ Len(sent[i]) = 1

\* connection i has its one response, with this status and success flag
AnsweredWith(i, status, ok) ==
  Answered(i) /\ sent[i][1].status = status /\ sent[i][1].is_success = ok

\* the provider's reply carries a text that is not blank
HasWord(reply) ==
  reply.kind = "text" /\ \E j \in 1..Len(reply.text) : ~IsWs(reply.text[j])

\* word is the first whitespace-delimited token of text
IsFirstToken(word, text) ==
  /\ word # <<>>
  /\ \A j \in 1..Len(word) : ~IsWs(word[j])
  /\ \E a \in 0..Len(text) :
       /\ \A j \in 1..a : IsWs(text[j])
       /\ a + Len(word) <= Len(text)
       /\ \A j \in 1..Len(word) : text[a + j] = word[j]
       /\ (a + Len(word) = Len(text) \/ IsWs(text[a + Len(word) + 1]))

\* the running result of lcmOfArray is Infinity before the last element
LcmOverflowsEarly(v) ==
  \E j \in 1..(Len(v.items) - 1) : lcmOfArray(VArr(SubSeq(v.items, 1, j))).k = "inf"

(***************************************************************************)
(* Claims checked under Spec.                                              *)
(***************************************************************************)

\* C1 as stated: in src/index.js every POST /bfhl with exactly one
\* recognized key and a payload within that key's constraints is answered
\* with status 200 and is_success true, whatever the credential and the
\* outcome of the AI call (a question counted as non-empty only when it is
\* so after trimming, and a request judged only once it is answered).
C1_AlwaysSuccess ==
  \A i \in DOMAIN pc :
    (variant = "index" /\ OneKey(i) /\ PayloadOk(TheKey(i), TheVal(i), TRUE)
       /\ pc[i] = "done")
      => AnsweredWith(i, 200, TRUE)

\* C1 amended: such a request with key fibonacci, prime or hcf is answered
\* 200 with is_success true; with key lcm also, unless the running result of
\* lcmOfArray is Infinity before the last element, and then no response is
\* ever sent; with key AI or ai it is answered 400 when the question is
\* blank, 503 with is_success false when no credential is configured or the
\* call throws or gives no word, and 200 with is_success true otherwise.
C1_SuccessUnlessUnavailable ==
  \A i \in DOMAIN pc :
    (variant = "index" /\ OneKey(i) /\ PayloadOk(TheKey(i), TheVal(i), FALSE))
      => IF TheKey(i) \in {"AI", "ai"}
         THEN IF ~PayloadOk(TheKey(i), TheVal(i), TRUE) THEN AnsweredWith(i, 400, FALSE)
              ELSE IF ~genAI THEN AnsweredWith(i, 503, FALSE)
              ELSE \/ pc[i] = "awaiting" /\ sent[i] = <<>>
                   \/ /\ HasWord(calls[i][1].reply)
                      /\ AnsweredWith(i, 200, TRUE)
                   \/ /\ calls[i][1].reply # Pending
                      /\ ~HasWord(calls[i][1].reply)
                      /\ AnsweredWith(i, 503, FALSE)
         ELSE IF TheKey(i) = "lcm" /\ LcmOverflowsEarly(TheVal(i))
         THEN pc[i] = "hung" /\ sent[i] = <<>>
         ELSE AnsweredWith(i, 200, TRUE)

\* a valid question is answered 503 because no credential is configured
C1_Witness ==
  \E i \in DOMAIN pc :
    /\ variant = "index" /\ ~genAI
    /\ OneKey(i) /\ TheKey(i) = "AI" /\ PayloadOk("AI", TheVal(i), TRUE)
    /\ AnsweredWith(i, 503, FALSE)

\* C2: in both variants a POST /bfhl whose object body has no recognized key
\* or more than one top-level key is answered 400 with is_success false, and
\* no computation function and no call to the provider is run for it.
C2_AmbiguousOrMissingKey ==
  \A i \in DOMAIN pc :
    (/\ JsonPost(i)
     /\ \/ \A j \in 1..Len(req[i].payload.fields) :
             req[i].payload.fields[j].key \notin RecognizedKeys
        \/ Len(req[i].payload.fields) > 1)
      => AnsweredWith(i, 400, FALSE) /\ ran[i] = <<>> /\ calls[i] = <<>>

\* src/unnamed/part_000 has rejected a body with two recognized keys
C2_Witness ==
  \E i \in DOMAIN pc :
    /\ variant = "part_000"
    /\ JsonPost(i)
    /\ Len(req[i].payload.fields) = 2
    /\ \A j \in 1..2 : req[i].payload.fields[j].key \in RecognizedKeys
    /\ AnsweredWith(i, 400, FALSE)
    /\ ran[i] = <<>>

\* exactly one of data and error is present, as is_success says
OneOfDataError(res) ==
  /\ ("data" \in res.has) # ("error" \in res.has)
  /\ ("data" \in res.has) = res.is_success
  /\ ("error" \in res.has) = ~res.is_success

\* C3 as stated: every response of src/index.js, on any route, has exactly
\* one of data and error: data when is_success is true, error when it is
\* false.
C3_OneOfDataError ==
  \A i \in DOMAIN pc : \A j \in 1..Len(sent[i]) :
    variant = "index" => OneOfDataError(sent[i][j])

\* C3 amended: the response of GET /health in src/index.js has is_success
\* true and neither data nor error; every other response of src/index.js
\* has exactly one of data and error, as is_success says.
C3_OneOfDataErrorButHealth ==
  \A i \in DOMAIN pc : \A j \in 1..Len(sent[i]) :
    variant = "index"
      => IF req[i].method = "GET" /\ req[i].path = "/health"
         THEN /\ sent[i][j].is_success
              /\ sent[i][j].has = {"is_success", "official_email"}
         ELSE OneOfDataError(sent[i][j])

\* GET /health is answered by src/index.js
C3_Witness ==
  \E i \in DOMAIN pc :
    /\ variant = "index"
    /\ req[i].method = "GET" /\ req[i].path = "/health"
    /\ AnsweredWith(i, 200, TRUE)

\* C4: in src/index.js a POST /bfhl with exactly one recognized key whose
\* payload breaks that key's constraint is answered 400 with is_success
\* false, and neither the computation function nor getAIResponse is invoked.
C4_InvalidPayload ==
  \A i \in DOMAIN pc :
    (variant = "index" /\ OneKey(i) /\ ~PayloadOk(TheKey(i), TheVal(i), TRUE))
      => AnsweredWith(i, 400, FALSE) /\ ran[i] = <<>> /\ calls[i] = <<>>

\* fibonacci: 1001 is rejected by src/index.js
C4_Witness ==
  \E i \in DOMAIN pc :
    /\ variant = "index"
    /\ OneKey(i) /\ TheKey(i) = "fibonacci" /\ TheVal(i) = VNum(N(1001))
    /\ AnsweredWith(i, 400, FALSE)
    /\ ran[i] = <<>>

UnavailableMessage == "AI service unavailable. Set GEMINI_API_KEY environment variable."

\* C5: for a valid question in src/index.js, without a credential no call is
\* issued and the answer is 503 with is_success false; with a credential
\* exactly one call is issued, and the answer is 503 with the fixed message
\* when the call throws or gives no word, and 200 with the first
\* whitespace-delimited token of the text as data otherwise.
C5_AIBridge ==
  \A i \in DOMAIN pc :
    (variant = "index" /\ OneKey(i) /\ TheKey(i) \in {"AI", "ai"}
       /\ PayloadOk(TheKey(i), TheVal(i), TRUE))
      => IF ~genAI
         THEN calls[i] = <<>> /\ AnsweredWith(i, 503, FALSE)
         ELSE /\ Len(calls[i]) = 1
              /\ \/ pc[i] = "awaiting" /\ sent[i] = <<>> /\ calls[i][1].reply = Pending
                 \/ /\ HasWord(calls[i][1].reply)
                    /\ AnsweredWith(i, 200, TRUE)
                    /\ "data" \in sent[i][1].has
                    /\ sent[i][1].data.t = "str"
                    /\ IsFirstToken(sent[i][1].data.chars, calls[i][1].reply.text)
                 \/ /\ calls[i][1].reply # Pending
                    /\ ~HasWord(calls[i][1].reply)
                    /\ AnsweredWith(i, 503, FALSE)
                    /\ sent[i][1].error = UnavailableMessage

\* the provider's text of several words is answered with its first word
C5_Witness ==
  \E i \in DOMAIN pc :
    /\ variant = "index" /\ genAI
    /\ OneKey(i) /\ TheKey(i) = "ai"
    /\ Len(calls[i]) = 1
    /\ Len(calls[i][1].reply.text) > 3
    /\ AnsweredWith(i, 200, TRUE)
    /\ sent[i][1].data = VStr(<<"Y", "e", "s">>)

(***************************************************************************)
(* Claims checked under SpecFib, SpecPrime and SpecLcm.                    *)
(***************************************************************************)

\* the limbs of the integer that the finite double x is
IntLimbs(x) ==
  IF IsZero(x) THEN <<>>
  ELSE IF x.e >= 0 THEN LShl(x.m, x.e)
  ELSE LShr(x.m, -x.e)

\* C6: for n in 0..1000, fibonacci(n) has exactly n elements, the first 0,
\* the second 1, and every later one the sum of the two before it.
C6_FibonacciRecurrence ==
  call.fn = "fibonacci"
    => LET n == ToInt(call.arg.n)
           f == call.ret.items
       IN  /\ Len(f) = n
           /\ n >= 1 => f[1].n = Zero
           /\ n >= 2 => f[2].n = N(1)
           /\ \A i \in 3..n :
                IntLimbs(f[i].n) = LAdd(IntLimbs(f[i - 1].n), IntLimbs(f[i - 2].n))

\* x is a prime number
IsPrimeNumber(x) == x >= 2 /\ \A d \in 2..(x - 1) : x % d # 0

\* the array element v is a prime number
IsPrimeElement(v) == IsPrimeNumber(ToInt(v.n))

\* C7: filterPrimes(arr) is arr without its elements that are not prime
\* numbers, the others in their order and as often as they occur; isPrime
\* agrees with primality.
C7_FilterPrimes ==
  /\ call.fn = "isPrime" => call.ret.b = IsPrimeNumber(ToInt(call.arg.n))
  /\ call.fn = "filterPrimes"
       => call.ret = VArr(SelectSeq(call.arg.items, IsPrimeElement))

\* filterPrimes([97, 9, 97]) has returned [97, 97]
C7_Witness ==
  /\ call.fn = "filterPrimes"
  /\ call.arg = IntArr(<<97, 9, 97>>)
  /\ call.ret = IntArr(<<97, 97>>)

RECURSIVE LGcd(_, _)
\* the greatest common divisor of the naturals a and b
LGcd(a, b) == IF b = <<>> THEN a ELSE LGcd(b, LDivMod(a, b).r)

RECURSIVE ExactLcm(_, _, _)
\* the least common multiple of acc and the integers items[i], items[i+1], ...
ExactLcm(items, i, acc) ==
  IF i > Len(items) THEN acc
  ELSE LET x == IntLimbs(items[i].n)
       IN  ExactLcm(items, i + 1, LDivMod(LMul(acc, x), LGcd(acc, x)).q)

\* C8: for a non-empty array of at most 20 strictly positive integers,
\* lcmOfArray returns a positive integer that every element divides, and the
\* smallest one: the least common multiple of the elements.
C8_LeastCommonMultiple ==
  (call.fn = "lcmOfArray" /\ call.arg.items # <<>> /\ Len(call.arg.items) <= 20)
    => /\ call.ret.t = "num"
       /\ IsInteger(call.ret.n)
       /\ Less(Zero, call.ret.n)
       /\ \A j \in 1..Len(call.arg.items) :
            LDivMod(IntLimbs(call.ret.n), IntLimbs(call.arg.items[j].n)).r = <<>>
       /\ IntLimbs(call.ret.n) = ExactLcm(call.arg.items, 1, <<1>>)

(***************************************************************************)
(* Claims checked under SpecC.                                             *)
(***************************************************************************)

\* the prompts connection i has sent to the provider
Prompts(i) == [j \in 1..Len(calls[i]) |-> calls[i][j].prompt]

\* C9: in both variants a request {"ai": q} is treated as the request
\* {"AI": q}: the same question goes to getAIResponse and on to the
\* provider, and with the same reply the two get the same response.
C9_LowerCaseKey ==
  \A i, j \in DOMAIN pc :
    (/\ OneKey(i) /\ TheKey(i) = "ai" /\ pc[i] = "done"
     /\ OneKey(j) /\ TheKey(j) = "AI" /\ pc[j] = "done"
     /\ TheVal(i) = TheVal(j))
      => /\ ran[i] = ran[j]
         /\ Prompts(i) = Prompts(j)
         /\ calls[i] = calls[j] => sent[i] = sent[j]

\* connection i holds a request for the AI operation
IsAIRequest(i) == OneKey(i) /\ TheKey(i) \in {"AI", "ai"}

\* C10: whatever is in flight on the other connections, a request gets one
\* response and no more; a request that is not for the AI operation has it
\* as soon as it is handled, and one that is waits for its own call only;
\* two requests that are the same, with the same replies to their calls,
\* get the same response.
C10_Independent ==
  /\ \A i \in DOMAIN pc :
       req[i] # NoReq
         => /\ Len(sent[i]) <= 1
            /\ ~IsAIRequest(i) => Answered(i)
            /\ IsAIRequest(i) =>
                 \/ Answered(i)
                 \/ pc[i] = "awaiting" /\ Len(calls[i]) = 1 /\ calls[i][1].reply = Pending
  /\ \A i, j \in DOMAIN pc :
       (req[i] = req[j] /\ calls[i] = calls[j] /\ Answered(i) /\ Answered(j))
         => sent[i] = sent[j]

====
